---- MODULE Spec2Model ----
(***************************************************************************)
(* Data-source client layer of federal_reserve_etl: the retry decorator    *)
(* handle_api_errors, the FRED and Haver clients (connect, disconnect,     *)
(* rate limiting, get_data, get_metadata) and their with-block protocol.   *)
(*                                                                         *)
(* Time is counted in ticks of half a second (the smallest duration the    *)
(* clients use, fred_client.py:265).  The decorator works in seconds, as   *)
(* the code does; the clients convert its sleeps to ticks.                 *)
(***************************************************************************)
EXTENDS Integers, Sequences, FiniteSets, TLC

VARIABLES
    created,              \* the client the program created (--source)
    now,                  \* wall clock (datetime.now()), in ticks
    is_connected,         \* client -> BOOLEAN
    session,              \* client -> "None" | "Session"
    last_request_time,    \* client -> tick | DatetimeMin
    requests_this_minute, \* FRED client -> counter of the minute window
    minute_window_start,  \* FRED client -> tick | DatetimeMin
    inWith,               \* client -> control is inside a `with client:` block
    last,                 \* what the last operation did and how it ended
    wcall,                \* decorator run: the decorated call's parameters
    wres,                 \* decorator run: its result
    admitted,             \* client -> the latest requests the limiter counted
    environ,              \* os.environ: the credential variables
    previous,             \* the operation before the last one, if a get_data
    _request_count,       \* instance -> counter of DataSource._enforce_rate_limit
    _last_request_time    \* instance -> tick | NoTime (DataSource's own field)

clientVars == <<is_connected, session, last_request_time,
                requests_this_minute, minute_window_start>>
vars == <<created, now, is_connected, session, last_request_time, requests_this_minute,
          minute_window_start, inWith, last, wcall, wres, admitted, environ,
          previous, _request_count, _last_request_time>>

\* the limiter fields of DataSource, which the clients inherit
baseVars == <<_request_count, _last_request_time>>

-----------------------------------------------------------------------------
(* Bounds of the model *)

\* largest retry_count the decorator is run with
MaxRetryCount == 2
\* the clock stops advancing at this tick in the runs of connect()
MaxTime == 30
\* the same for the runs that mix all the operations of a client
Horizon == 6
\* the end of the clock: no operation ends after this tick
ClockEnd == 126
\* half-second waits the caller makes in a row
Paces == 4
\* requests per minute the FRED client is configured with (config rate_limit)
FredRateLimit == 2
\* requests per second the Haver client is configured with (1 or 2, so that
\* 1/rate_limit seconds is a whole number of ticks)
HaverRateLimit == 1
\* requests per minute of the generic source (self.rate_limit)
BaseRateLimit == 2

-----------------------------------------------------------------------------
(* Program constants *)

HalfSecond == 1
Second == HalfSecond + HalfSecond
WindowSeconds == 60
DatetimeMin == -1000000
FredRetryCount == 3
FredRetryDelay == 1
FredBackoff == 2
HaverRetryCount == 3
HaverRetryDelay == 2
HaverBackoff == 2
MaxCodeLen == 50

Max(a, b) == IF a >= b THEN a ELSE b

RECURSIVE Pow(_, _)
Pow(b, n) == IF n = 0 THEN 1 ELSE b * Pow(b, n - 1)

RECURSIVE SumSeq(_)
SumSeq(s) == IF s = <<>> THEN 0 ELSE Head(s) + SumSeq(Tail(s))

-----------------------------------------------------------------------------
(* Error taxonomy (utils/exceptions.py).  An exception object is the record *)
(* of its instance attributes; the message is kept as an opaque tag.        *)

NoExc == [type |-> "None"]

\* class -> the classes it is an instance of
Bases(cls) ==
    CASE cls = "FederalReserveETLError" -> {"FederalReserveETLError", "Exception"}
      [] cls = "ConnectionError"     -> {"ConnectionError", "FederalReserveETLError", "Exception"}
      [] cls = "AuthenticationError" -> {"AuthenticationError", "FederalReserveETLError", "Exception"}
      [] cls = "DataRetrievalError"  -> {"DataRetrievalError", "FederalReserveETLError", "Exception"}
      [] cls = "ValidationError"     -> {"ValidationError", "FederalReserveETLError", "Exception"}
      [] cls = "ConfigurationError"  -> {"ConfigurationError", "FederalReserveETLError", "Exception"}
      [] cls = "RateLimitError"      -> {"RateLimitError", "DataRetrievalError",
                                         "FederalReserveETLError", "Exception"}
      [] OTHER -> {cls, "Exception"}

IsInstance(e, cls) == e.type # "None" /\ cls \in Bases(e.type)

IsInstanceAny(e, classes) == \E cls \in classes : IsInstance(e, cls)

DomainTypes == {"FederalReserveETLError", "ConnectionError", "AuthenticationError",
                "DataRetrievalError", "ValidationError", "ConfigurationError",
                "RateLimitError"}

\* hasattr(e, name): the attributes __init__ sets on the instance
HasAttr(e, name) == name \in DOMAIN e

\* dict.get(key, default)
ContextGet(context, key, default) ==
    IF key \in DOMAIN context THEN context[key] ELSE default

\* a dict with the truthy optional entries only (`if x: context['k'] = x`)
Entry(key, value, absent) ==
    IF value = absent THEN <<>> ELSE <<<<key, value>>>>

RECURSIVE DictOf(_)
DictOf(pairs) ==
    IF pairs = <<>> THEN [k \in {} |-> 0]
    ELSE LET rest == DictOf(Tail(pairs))
             kv == Head(pairs)
         IN [k \in DOMAIN rest \cup {kv[1]} |-> IF k = kv[1] THEN kv[2] ELSE rest[k]]

FederalReserveETLError(message, error_code, context) ==
    [type |-> "FederalReserveETLError", message |-> message,
     error_code |-> error_code, context |-> context]

\* ConnectionError(message, endpoint=, status_code=)
ConnectionError(message, endpoint, status_code) ==
    [type |-> "ConnectionError", message |-> message, error_code |-> "None",
     context |-> DictOf(Entry("endpoint", endpoint, "None")
                        \o Entry("status_code", status_code, 0))]

\* AuthenticationError(message, api_key_hint=, source=)
AuthenticationError(message, api_key_hint, source) ==
    [type |-> "AuthenticationError", message |-> message, error_code |-> "None",
     context |-> DictOf(Entry("api_key_hint", api_key_hint, "None")
                        \o Entry("source", source, "None"))]

\* DataRetrievalError(message, variables=, date_range=, response_status=)
DataRetrievalError(message, variables, date_range, response_status) ==
    [type |-> "DataRetrievalError", message |-> message, error_code |-> "None",
     context |-> DictOf(Entry("variables", variables, <<>>)
                        \o Entry("date_range", date_range, <<>>)
                        \o Entry("response_status", response_status, 0))]

\* ValidationError(message, error_code=, field=, context=)
ValidationError(message, error_code, field, context) ==
    [type |-> "ValidationError", message |-> message, error_code |-> error_code,
     context |-> DictOf(context \o Entry("field", field, "None"))]

\* RateLimitError(message, limit=, retry_after=)
RateLimitError(message, limit, retry_after) ==
    [type |-> "RateLimitError", message |-> message, error_code |-> "None",
     context |-> DictOf(Entry("limit", limit, 0)
                        \o Entry("retry_after", retry_after, 0))]

\* an exception that is not part of the taxonomy (ValueError, JSONDecodeError, ...)
Foreign(cls, message) == [type |-> cls, message |-> message]

-----------------------------------------------------------------------------
(* Retry decorator (utils/error_handling.py, handle_api_errors)             *)

Return(v) == [kind |-> "return", value |-> v]
Raise(e)  == [kind |-> "raise", exc |-> e]

\* mutant: credential failures retried like connection failures
RetriableWithAuthentication ==
    {"ConnectionError", "RateLimitError", "AuthenticationError"}

DefaultRetriable == {"ConnectionError", "RateLimitError"}

\* mutant: the exponent is forgotten, every retry waits retry_delay
ConstantDelay(retry_delay, backoff_factor, attempt) == retry_delay

\* delay = retry_delay * (backoff_factor ** attempt)
BackoffDelay(retry_delay, backoff_factor, attempt) ==
    retry_delay * Pow(backoff_factor, attempt)

\* the rate-limit adjustment of the delay
RateLimitDelay(e, delay) ==
    IF IsInstance(e, "RateLimitError") /\ HasAttr(e, "retry_after")
    THEN Max(delay, ContextGet(e.context, "retry_after", delay))
    ELSE delay

\* mutant: the unexpected exception is re-raised as it is
ReraiseUnexpected(e, func_name) == e

\* the wrapped error raised for an exception outside the taxonomy
WrapUnexpected(e, func_name) ==
    FederalReserveETLError("Unexpected error", "UNEXPECTED_ERROR",
        [original_exception |-> e.type, function_name |-> func_name])

\* `if attempt < retry_count`: a retriable failure is retried
ShouldRetry(attempt, retry_count) == attempt < retry_count

\* mutant: the last failure is wrapped like an unexpected one
OnExhaustedWrapped(e) ==
    Raise(FederalReserveETLError("Unexpected error", "UNEXPECTED_ERROR",
                                 [original_exception |-> e.type]))

\* retries exhausted: the bare `raise` re-raises the failure just caught
OnExhausted(e) == Raise(e)

\* a failure of the taxonomy that is not retriable: logged and re-raised
OnNonRetriable(e) == Raise(e)

\* The loop `for attempt in range(retry_count + 1)` from `attempt` on.
\* outcomes[i] is how the i-th invocation of the wrapped function ends.
\* The result: the invocations made, the sleeps taken (seconds, in order)
\* and how the wrapper ends.
RECURSIVE WrapperLoop(_, _, _, _)
WrapperLoop(attempt, slept, p, outcomes) ==
    LET o == outcomes[attempt + 1]
        done(outcome) == [invocations |-> attempt + 1, sleeps |-> slept,
                          outcome |-> outcome]
    IN  IF o.kind = "return" THEN done(o)
        ELSE IF IsInstanceAny(o.exc, p.retriable) THEN
            IF ShouldRetry(attempt, p.retry_count)
            THEN LET delay == RateLimitDelay(o.exc,
                        BackoffDelay(p.retry_delay, p.backoff_factor, attempt))
                 IN WrapperLoop(attempt + 1, Append(slept, delay), p, outcomes)
            ELSE done(OnExhausted(o.exc))
        ELSE IF IsInstance(o.exc, "FederalReserveETLError")
        THEN done(OnNonRetriable(o.exc))
        ELSE done(Raise(WrapUnexpected(o.exc, p.func_name)))

wrapper(retry_count, retry_delay, backoff_factor, retriable, func_name, outcomes) ==
    WrapperLoop(0, <<>>,
                [retry_count |-> retry_count, retry_delay |-> retry_delay,
                 backoff_factor |-> backoff_factor, retriable |-> retriable,
                 func_name |-> func_name],
                outcomes)

-----------------------------------------------------------------------------
(* A run of the decorator over an arbitrary wrapped function                *)

Messages == {"m1", "m2"}
RetryAfterHints == {0, 3}     \* 0: the failure carries no retry-after hint
RetryDelays == {1, 2}
BackoffFactors == {1, 2}
RetriableSets == {DefaultRetriable, {"ConnectionError"}}

WrappedFailures ==
    {ConnectionError(m, "None", 0) : m \in Messages}
    \cup {RateLimitError("m1", 0, h) : h \in RetryAfterHints}
    \cup {AuthenticationError("m1", "None", "None"),
          DataRetrievalError("m1", <<>>, <<>>, 0),
          Foreign("ValueError", "m1")}

WrappedOutcomes == {Return("r1")} \cup {Raise(e) : e \in WrappedFailures}

NoCall == [retry_count |-> 0, retry_delay |-> 0, backoff_factor |-> 0,
           retriable |-> {}, outcomes |-> <<>>]
Pending == [invocations |-> 0, sleeps |-> <<>>, outcome |-> [kind |-> "pending"]]

WrappedCalls ==
    [retry_count : 0..MaxRetryCount, retry_delay : RetryDelays,
     backoff_factor : BackoffFactors, retriable : RetriableSets,
     outcomes : [1..(MaxRetryCount + 1) -> WrappedOutcomes]]

-----------------------------------------------------------------------------
(* Clients                                                                  *)

Clients == {"f1", "f2", "h1"}
Kind == [c \in Clients |-> IF c \in {"f1", "f2"} THEN "FRED" ELSE "Haver"]
FredClients == {c \in Clients : Kind[c] = "FRED"}

\* a source that keeps the limiter of DataSource (the ConcreteDataSource of
\* the tests), and every instance there is
Generic == "g1"
Instances == Clients \cup {Generic}

rate_limit(c) == IF Kind[c] = "FRED" THEN FredRateLimit ELSE HaverRateLimit

\* Haver: self.min_request_interval = 1.0 / self.rate_limit (seconds), in ticks
min_request_interval(c) == Second \div rate_limit(c)

RetryCount(c) == IF Kind[c] = "FRED" THEN FredRetryCount ELSE HaverRetryCount
RetryDelay(c) == IF Kind[c] = "FRED" THEN FredRetryDelay ELSE HaverRetryDelay
Backoff(c)    == IF Kind[c] = "FRED" THEN FredBackoff ELSE HaverBackoff

\* What session.get() of the probe can do: raise a transport exception or
\* return a response with a status and, for a FRED 400, an error body.
Response(status, body) == [t |-> "response", status |-> status, body |-> body]
Transport(exc) == [t |-> exc, status |-> 0, body |-> "na"]

ProbeResponses ==
    {Transport("ConnectionError"), Transport("Timeout"), Transport("TooManyRedirects")}
    \cup {Response(s, "na") : s \in {200, 401, 403, 500}}
    \cup {Response(400, b) : b \in {"not_json", "api_key_message", "other_message"}}

\* response.raise_for_status() raises HTTPError
RaisesForStatus(status) == status >= 400

\* FREDDataSource.connect body after self.session.get returned or raised
FredConnectBody(r) ==
    IF r.t = "ConnectionError"
    THEN Raise(ConnectionError("Failed to connect to FRED API", "base_url", 0))
    ELSE IF r.t = "Timeout"
    THEN Raise(ConnectionError("Connection timeout to FRED API", "base_url", 0))
    ELSE IF r.t # "response" THEN Raise(Foreign(r.t, "transport"))
    ELSE IF r.status = 400 /\ r.body = "not_json"
    THEN Raise(Foreign("JSONDecodeError", "response.json()"))
    ELSE IF r.status = 400 /\ r.body = "api_key_message"
    THEN Raise(AuthenticationError("Invalid FRED API key", "hint", "FRED"))
    ELSE IF RaisesForStatus(r.status)
    THEN IF r.status = 401
         THEN Raise(AuthenticationError("FRED API authentication failed", "hint", "FRED"))
         ELSE Raise(ConnectionError("HTTP error connecting to FRED API",
                                    "base_url", r.status))
    ELSE Return(TRUE)

\* HaverDataSource.connect body after self.session.get returned or raised
HaverConnectBody(r) ==
    IF r.t = "ConnectionError"
    THEN Raise(ConnectionError("Failed to connect to Haver Analytics API", "base_url", 0))
    ELSE IF r.t = "Timeout"
    THEN Raise(ConnectionError("Connection timeout to Haver Analytics API", "base_url", 0))
    ELSE IF r.t # "response" THEN Raise(Foreign(r.t, "transport"))
    ELSE IF r.status = 401
    THEN Raise(AuthenticationError("Invalid Haver Analytics credentials", "hint", "Haver"))
    ELSE IF r.status = 403
    THEN Raise(AuthenticationError("Haver Analytics access denied", "hint", "Haver"))
    ELSE IF RaisesForStatus(r.status)
    THEN Raise(ConnectionError("HTTP error connecting to Haver Analytics API",
                               "base_url", r.status))
    ELSE Return(TRUE)

ConnectBody(c, r) ==
    IF Kind[c] = "FRED" THEN FredConnectBody(r) ELSE HaverConnectBody(r)

\* connect() as decorated: @handle_api_errors(retry_count, retry_delay, backoff)
ConnectRun(c, responses) ==
    wrapper(RetryCount(c), RetryDelay(c), Backoff(c), DefaultRetriable, "connect",
            [i \in DOMAIN responses |-> ConnectBody(c, responses[i])])

\* is_connected after connect(): set on the success path only
ConnectedAfterConnect(before, outcome) ==
    IF outcome.kind = "return" THEN TRUE ELSE before

\* mutant: the probe request is not counted
CountProbeForgotten == 1 - 1

\* requests_this_minute after a successful connect: the probe is counted
CountAfterConnect == 1

\* the responses the source gives to the successive probes of one connect():
\* `pre` to the first k probes, `final` to the later ones
ProbeSequences(c) ==
    {[i \in 1..(RetryCount(c) + 1) |-> IF i <= k THEN pre ELSE final] :
        k \in 0..RetryCount(c),
        pre \in {Transport("ConnectionError")},
        final \in ProbeResponses}

\* every run of connect(), by client and probe responses
ConnectRuns ==
    [c \in Clients |-> [responses \in ProbeSequences(c) |-> ConnectRun(c, responses)]]

\* The record of an operation: its name, client and argument, the client's
\* connection state when it was called, the exception it raised (NoExc when
\* it returned), its return value, the invocations of the decorated body,
\* the sleeps taken and the HTTP requests sent.
Op(op, c, arg, exc, ret, invocations, sleeps, requests) ==
    [op |-> op, client |-> c, arg |-> arg, exc |-> exc, ret |-> ret,
     invocations |-> invocations, sleeps |-> sleeps, requests |-> requests,
     before |-> IF c \in Clients
                THEN [is_connected |-> is_connected[c], session |-> session[c]]
                ELSE [is_connected |-> FALSE, session |-> "None"]]

\* connect(): every invocation of the body replaces self.session by a new
\* Session and sends one probe; the success path initialises the limiter.
DoConnect(c, op, responses) ==
    \E run \in {ConnectRuns[c][responses]} :
    LET ok  == run.outcome.kind = "return"
        t   == now + SumSeq(run.sleeps) * Second
    IN  /\ t <= ClockEnd
        /\ now' = t
        /\ session' = [session EXCEPT ![c] = "Session"]
        /\ is_connected' =
              [is_connected EXCEPT ![c] = ConnectedAfterConnect(@, run.outcome)]
        /\ last_request_time' =
              IF ok THEN [last_request_time EXCEPT ![c] = t] ELSE last_request_time
        /\ requests_this_minute' =
              IF ok /\ c \in FredClients
              THEN [requests_this_minute EXCEPT ![c] = CountAfterConnect]
              ELSE requests_this_minute
        /\ minute_window_start' =
              IF ok /\ c \in FredClients
              THEN [minute_window_start EXCEPT ![c] = t]
              ELSE minute_window_start
        /\ last' = Op(op, c, responses,
                      IF ok THEN NoExc ELSE run.outcome.exc,
                      IF ok THEN "True" ELSE "None",
                      run.invocations, run.sleeps, run.invocations)

\* a program whose source answers the first probe, or the second after one
\* connection failure, with 200 or 401
BasicProbeSequences(c) ==
    {r \in ProbeSequences(c) :
        /\ r[2] \in {Response(200, "na"), Response(401, "na")}
        /\ r[1] \in {r[2], Transport("ConnectionError")}}

Connect(c, sequences) ==
    /\ \E responses \in sequences : DoConnect(c, "connect", responses)
    /\ UNCHANGED <<created, inWith, wcall, wres>>

\* mutant: the session handle is closed but kept
SessionKept(before) == before

\* session after disconnect(): `if self.session: close(); self.session = None`
SessionAfterDisconnect(before) == "None"

\* mutant: disconnect() leaves the flag as it is
ConnectedKept(before) == before

\* is_connected after disconnect()
ConnectedAfterDisconnect(before) == FALSE

DoDisconnect(c) ==
    /\ session' = [session EXCEPT ![c] = SessionAfterDisconnect(@)]
    /\ is_connected' = [is_connected EXCEPT ![c] = ConnectedAfterDisconnect(@)]
    /\ UNCHANGED <<now, last_request_time, requests_this_minute, minute_window_start>>

Disconnect(c) ==
    /\ DoDisconnect(c)
    /\ last' = Op("disconnect", c, "None", NoExc, "None", 0, <<>>, 0)
    /\ UNCHANGED <<created, inWith, wcall, wres>>

\* test_connection(): `except Exception` turns a failed connect() into False
TestConnectionCaught(outcome) == NoExc

\* DataSource.test_connection(): connect(), then disconnect() if it returned
\* True; False when connect() raised
TestConnection(c, sequences) ==
    /\ \E responses \in sequences :
       \E run \in {ConnectRuns[c][responses]} :
       LET ok == run.outcome.kind = "return"
           t  == now + SumSeq(run.sleeps) * Second
       IN  /\ t <= ClockEnd
           /\ now' = t
           /\ session' = [session EXCEPT ![c] =
                             IF ok THEN SessionAfterDisconnect("Session") ELSE "Session"]
           /\ is_connected' = [is_connected EXCEPT ![c] =
                                  IF ok THEN ConnectedAfterDisconnect(TRUE)
                                  ELSE ConnectedAfterConnect(@, run.outcome)]
           /\ last_request_time' =
                 IF ok THEN [last_request_time EXCEPT ![c] = t] ELSE last_request_time
           /\ requests_this_minute' =
                 IF ok /\ c \in FredClients
                 THEN [requests_this_minute EXCEPT ![c] = CountAfterConnect]
                 ELSE requests_this_minute
           /\ minute_window_start' =
                 IF ok /\ c \in FredClients
                 THEN [minute_window_start EXCEPT ![c] = t]
                 ELSE minute_window_start
           /\ last' = Op("test_connection", c, responses,
                         IF ok THEN NoExc ELSE TestConnectionCaught(run.outcome),
                         IF ok THEN "True" ELSE "False",
                         run.invocations, run.sleeps, run.invocations)
                      @@ [connect |-> run.outcome]
    /\ UNCHANGED <<created, inWith, wcall, wres>>

-----------------------------------------------------------------------------
(* Shared validators (utils/error_handling.py)                              *)

\* A variable code is the sequence of its characters; an entry of the
\* `variables` argument is a string or something else (None, a number).
Str(chars) == [isstr |-> TRUE, chars |-> chars]
NonStr == [isstr |-> FALSE, chars |-> <<>>]

Upper(ch) == CASE ch = "a" -> "A" [] ch = "b" -> "B" [] OTHER -> ch

RECURSIVE LStrip(_)
LStrip(s) == IF s # <<>> /\ Head(s) = " " THEN LStrip(Tail(s)) ELSE s

RECURSIVE RStrip(_)
RStrip(s) ==
    IF s # <<>> /\ s[Len(s)] = " " THEN RStrip(SubSeq(s, 1, Len(s) - 1)) ELSE s

\* var.strip().upper()
Clean(chars) == LET t == RStrip(LStrip(chars)) IN [i \in DOMAIN t |-> Upper(t[i])]

\* why an entry is rejected, or "ok"
EntryVerdict(entry) ==
    IF ~entry.isstr THEN "not string"
    ELSE IF Clean(entry.chars) = <<>> THEN "empty"
    ELSE IF Len(Clean(entry.chars)) > MaxCodeLen THEN "too long"
    ELSE "ok"

\* mutant: validation stops at the first invalid entry
FirstInvalidVar(var_list) ==
    LET bad == SelectSeq(var_list, LAMBDA e : EntryVerdict(e) # "ok")
    IN  IF bad = <<>> THEN <<>>
        ELSE <<[entry |-> bad[1], why |-> EntryVerdict(bad[1])]>>

\* invalid_vars: the rejected entries, each with the reason, in list order
InvalidVars(var_list) ==
    LET bad == SelectSeq(var_list, LAMBDA e : EntryVerdict(e) # "ok")
    IN  [i \in DOMAIN bad |-> [entry |-> bad[i], why |-> EntryVerdict(bad[i])]]

\* validate_variable_codes on a list: the cleaned codes, or ValidationError
\* whose message and context name the invalid entries
validate_variable_codes(variables) ==
    LET valid   == SelectSeq(variables, LAMBDA e : EntryVerdict(e) = "ok")
        invalid == InvalidVars(variables)
        cleaned == [i \in DOMAIN valid |-> Clean(valid[i].chars)]
    IN  IF invalid # <<>>
        THEN Raise(ValidationError(<<"Invalid variable codes", invalid>>,
                       "INVALID_VARIABLES", "variables",
                       << <<"valid_variables", cleaned>>,
                          <<"invalid_variables", invalid>> >>))
        ELSE Return(cleaned)

\* The `variables` argument: a list, a single string, or a value that is
\* neither (None, a number).
ListArg(items) == [shape |-> "list", items |-> items]
StringArg(code) == [shape |-> "str", items |-> <<code>>]
OtherArg == [shape |-> "other", items |-> <<>>]

\* var_list: [variables] for a string, list(variables) otherwise
var_list(variables) ==
    IF variables.shape = "other"
    THEN Raise(Foreign("TypeError", "object is not iterable"))
    ELSE Return(variables.items)

\* A date argument: None, a string strptime rejects, or a date (a string in
\* the expected format or a datetime), written yyyymmdd.
NoDate == [t |-> "None", d |-> 0]
BadDateString == [t |-> "badstr", d |-> 0]
Date(d) == [t |-> "date", d |-> d]

MinDate == 19000101
MaxDate == 20301231

\* mutant: equal dates pass
After(start_dt, end_dt) == start_dt > end_dt

\* start_dt >= end_dt
NotBefore(start_dt, end_dt) == start_dt >= end_dt

\* validate_and_convert_dates
validate_and_convert_dates(start_date, end_date) ==
    IF start_date.t = "badstr" \/ end_date.t = "badstr"
    THEN Raise(ValidationError("Invalid date format", "INVALID_DATE_FORMAT",
                               "date", <<>>))
    ELSE IF start_date.t = "None" \/ end_date.t = "None"
    THEN Raise(Foreign("TypeError", "start_dt >= end_dt"))
    ELSE IF NotBefore(start_date.d, end_date.d)
    THEN Raise(ValidationError("Start date must be before end date",
                               "INVALID_DATE_RANGE", "date_range", <<>>))
    ELSE IF start_date.d < MinDate \/ end_date.d > MaxDate
    THEN Raise(ValidationError("Dates out of bounds", "DATE_OUT_OF_BOUNDS",
                               "date_range", <<>>))
    ELSE Return(<<start_date.d, end_date.d>>)

-----------------------------------------------------------------------------
(* Factory (data_sources/__init__.py) and the client constructors           *)

\* A credential value: absent (None, no such key, variable not set), a value
\* that is not a string, or a string, described by what the code reads of
\* it: its length, the blanks around it, whether it is alphanumeric once its
\* hyphens are removed.  `s` tells the values apart.
Absent == [present |-> FALSE]
NotText == [present |-> TRUE, isstr |-> FALSE]
Text(s, len, pad, alnum) ==
    [present |-> TRUE, isstr |-> TRUE, s |-> s, len |-> len, pad |-> pad,
     alnum |-> alnum]

\* bool(value): None and the empty string are false
IsSet(v) == v.present /\ (~v.isstr \/ v.len > 0)

\* mutant: the config entry is looked up before the call-time argument
FirstSetConfigFirst(a, b, c) == IF IsSet(b) THEN b ELSE IF IsSet(a) THEN a ELSE c

\* a or b or c
FirstSet(a, b, c) == IF IsSet(a) THEN a ELSE IF IsSet(b) THEN b ELSE c

\* value.strip()
StripText(v) == [v EXCEPT !.len = v.len - v.pad, !.pad = 0]

ApiKeyLen == 32
MinUsernameLen == 3
MinPasswordLen == 6

\* ConfigurationError(message, config_key=); `cause` is __cause__
ConfigurationError(message, config_key, cause) ==
    [type |-> "ConfigurationError", message |-> message, error_code |-> "None",
     context |-> DictOf(Entry("config_key", config_key, "None")),
     cause |-> cause]

\* FREDDataSource._validate_api_key
validate_api_key(api_key) ==
    IF ~IsSet(api_key) \/ ~api_key.isstr
    THEN Raise(ValidationError("FRED API key must be a non-empty string",
                               "None", "api_key", <<>>))
    ELSE IF api_key.len # ApiKeyLen \/ ~api_key.alnum
    THEN Raise(ValidationError("FRED API key must be 32 character alphanumeric string",
                               "None", "api_key", <<>>))
    ELSE Return(api_key)

\* HaverDataSource._validate_username
validate_username(username) ==
    IF ~IsSet(username) \/ ~username.isstr
    THEN Raise(ValidationError("Haver username must be a non-empty string",
                               "None", "username", <<>>))
    ELSE IF StripText(username).len < MinUsernameLen
    THEN Raise(ValidationError("Haver username must be at least 3 characters long",
                               "None", "username", <<>>))
    ELSE Return(StripText(username))

\* HaverDataSource._validate_password
validate_password(password) ==
    IF ~IsSet(password) \/ ~password.isstr
    THEN Raise(ValidationError("Haver password must be a non-empty string",
                               "None", "password", <<>>))
    ELSE IF password.len < MinPasswordLen
    THEN Raise(ValidationError("Haver password must be at least 6 characters long",
                               "None", "password", <<>>))
    ELSE Return(password)

\* DataSource.__init__: the attributes every client starts with
DataSourceInit ==
    [source_name |-> "Unknown Source", is_connected |-> FALSE, session |-> "None"]

\* the keyword arguments a constructor is called with beyond its own
\* parameters: it has no **kwargs, so any of them is a TypeError
UnexpectedKeyword(kwargs, own) ==
    kwargs.extra \/ \E k \in (DOMAIN kwargs \ {"extra"}) \ own : kwargs[k].present

\* FREDDataSource(api_key=, config=, **kwargs_clean)
FREDDataSource(api_key, kwargs) ==
    LET key == validate_api_key(api_key)
    IN  IF UnexpectedKeyword(kwargs, {"api_key"})
        THEN Raise(Foreign("TypeError", "unexpected keyword argument"))
        ELSE IF key.kind = "raise" THEN key
        ELSE Return(DataSourceInit @@ [cls |-> "FREDDataSource", api_key |-> key.value])

\* HaverDataSource(username=, password=, config=, **kwargs_clean)
HaverDataSource(username, password, kwargs) ==
    LET user == validate_username(username)
        pass == validate_password(password)
    IN  IF UnexpectedKeyword(kwargs, {"username", "password"})
        THEN Raise(Foreign("TypeError", "unexpected keyword argument"))
        ELSE IF user.kind = "raise" THEN user
        ELSE IF pass.kind = "raise" THEN pass
        ELSE Return(DataSourceInit @@ [cls |-> "HaverDataSource",
                                       username |-> user.value, password |-> pass.value])

\* _create_fred_source(config, **kwargs)
create_fred_source(config, kwargs, env) ==
    LET api_key == FirstSet(kwargs.api_key, config.api_key, env.FRED_API_KEY)
    IN  IF ~IsSet(api_key)
        THEN Raise(ConfigurationError("FRED API key is required", "api_key", NoExc))
        ELSE FREDDataSource(api_key, kwargs)

\* _create_haver_source(config, **kwargs)
create_haver_source(config, kwargs, env) ==
    LET username == FirstSet(kwargs.username, config.username, env.HAVER_USERNAME)
        password == FirstSet(kwargs.password, config.password, env.HAVER_PASSWORD)
    IN  IF ~IsSet(username)
        THEN Raise(ConfigurationError("Haver username is required", "username", NoExc))
        ELSE IF ~IsSet(password)
        THEN Raise(ConfigurationError("Haver password is required", "password", NoExc))
        ELSE HaverDataSource(username, password, kwargs)

FredKeys == {<<"f", "r", "e", "d">>, <<"F", "R", "E", "D">>, <<"F", "r", "e", "d">>}
HaverKeys == {<<"h", "a", "v", "e", "r">>, <<"H", "A", "V", "E", "R">>,
              <<"H", "a", "v", "e", "r">>}

DATA_SOURCE_REGISTRY ==
    [k \in FredKeys \cup HaverKeys |->
        IF k \in FredKeys THEN "FREDDataSource" ELSE "HaverDataSource"]

\* mutant: a failure of the construction is raised as it is
ConstructionFailureRaised(e) == e

\* except Exception as e: raise ConfigurationError(...) from e
ConstructionFailure(e) ==
    ConfigurationError("Failed to create data source", "source_instantiation", e)

\* the class create_data_source selects for source_type, "None" when it
\* rejects the identifier
SourceClass(source_type) ==
    IF ~source_type.isstr \/ source_type.chars = <<>> THEN "None"
    ELSE LET source_key == RStrip(LStrip(source_type.chars))
         IN  IF source_key \in DOMAIN DATA_SOURCE_REGISTRY
             THEN DATA_SOURCE_REGISTRY[source_key] ELSE "None"

\* create_data_source(source_type, config, **kwargs) with os.environ = env
create_data_source(source_type, config, kwargs, env) ==
    IF ~source_type.isstr \/ source_type.chars = <<>>
    THEN Raise(ConfigurationError("source_type must be a non-empty string",
                                  "source_type", NoExc))
    ELSE IF SourceClass(source_type) = "None"
    THEN Raise(ConfigurationError("Unsupported data source", "source_type", NoExc))
    ELSE LET made == IF SourceClass(source_type) = "FREDDataSource"
                     THEN create_fred_source(config, kwargs, env)
                     ELSE create_haver_source(config, kwargs, env)
         IN  IF made.kind = "raise" THEN Raise(ConstructionFailure(made.exc))
             ELSE made

-----------------------------------------------------------------------------
(* Rate limiters                                                            *)

WindowTicks == WindowSeconds * Second

\* mutant: every FRED client reads the limiter fields of the first one
LimiterOfFirst(c) ==
    [t |-> now,
     lrt |-> IF c \in FredClients THEN last_request_time["f1"] ELSE last_request_time[c],
     slept |-> 0,
     ws |-> IF c \in FredClients THEN minute_window_start["f1"] ELSE DatetimeMin,
     cnt |-> IF c \in FredClients THEN requests_this_minute["f1"] ELSE 0]

\* The limiter state of one client while an operation runs:
\* t (the clock), ws (minute_window_start), cnt (requests_this_minute),
\* lrt (last_request_time), slept (ticks slept by the limiter).
Limiter(c) ==
    [t |-> now, lrt |-> last_request_time[c], slept |-> 0,
     ws |-> IF c \in FredClients THEN minute_window_start[c] ELSE DatetimeMin,
     cnt |-> IF c \in FredClients THEN requests_this_minute[c] ELSE 0]

\* `(now - self.minute_window_start).total_seconds() >= 60`
WindowElapsed(t, ws) == (t - ws) >= WindowTicks

\* mutant: one request too many is let through
AtLimitOffByOne(cnt, limit) == cnt > limit

\* `self.requests_this_minute >= self.rate_limit`
AtLimit(cnt, limit) == cnt >= limit

\* mutant: a request that arrives too soon is sent at once
FredNoNap(since) == 0

\* the FRED limiter's sleep: the shortfall to half a second
FredNap(since) == IF since < HalfSecond THEN HalfSecond - since ELSE 0

\* mutant: the hint is the wait cut to whole seconds
RetryAfterFloor(wait) == wait \div Second

\* `retry_after=int(seconds_to_wait) + 1`, the wait given in ticks
RetryAfter(wait) == (wait \div Second) + 1

\* FREDDataSource._enforce_rate_limit
FredEnforceRateLimit(limit, st) ==
    LET reset == WindowElapsed(st.t, st.ws)
        ws    == IF reset THEN st.t ELSE st.ws
        cnt   == IF reset THEN 0 ELSE st.cnt
        wait  == WindowTicks - (st.t - ws)
        since == st.t - st.lrt
        nap   == FredNap(since)
    IN  IF AtLimit(cnt, limit) /\ wait > 0
        THEN [exc |-> RateLimitError("FRED API rate limit exceeded", limit,
                                     RetryAfter(wait)),
              st |-> [st EXCEPT !.ws = ws, !.cnt = cnt]]
        ELSE [exc |-> NoExc,
              st |-> [st EXCEPT !.ws = ws, !.cnt = cnt + 1, !.t = st.t + nap,
                                !.lrt = st.t + nap, !.slept = st.slept + nap]]

\* mutant: the Haver limiter sleeps a fixed half second
HaverNapFixed(interval, since) == IF since < interval THEN HalfSecond ELSE 0

\* the Haver limiter's sleep: the shortfall to min_request_interval
HaverNap(interval, since) == IF since < interval THEN interval - since ELSE 0

\* HaverDataSource._enforce_rate_limit
HaverEnforceRateLimit(interval, st) ==
    LET since == st.t - st.lrt
        nap   == HaverNap(interval, since)
    IN  [exc |-> NoExc,
         st |-> [st EXCEPT !.t = st.t + nap, !.lrt = st.t + nap,
                           !.slept = st.slept + nap]]

EnforceRateLimit(c, st) ==
    IF Kind[c] = "FRED" THEN FredEnforceRateLimit(rate_limit(c), st)
    ELSE HaverEnforceRateLimit(min_request_interval(c), st)

\* self.rate_limit of any instance
RateLimitOf(c) == IF c = Generic THEN BaseRateLimit ELSE rate_limit(c)

\* _last_request_time = None, as a tick no clock shows
NoTime == DatetimeMin - 1

\* `self._last_request_time is None or
\*  (now - self._last_request_time) > timedelta(minutes=1)`
BaseWindowPassed(t, lrt) == lrt = NoTime \/ (t - lrt) > WindowTicks

\* timedelta.seconds of a span of less than a day: its whole seconds
WholeSeconds(d) == d \div Second

\* The limiter state of DataSource while _enforce_rate_limit runs: t (the
\* clock), cnt (_request_count), lrt (_last_request_time), slept (ticks).
BaseLimiter(c) ==
    [t |-> now, cnt |-> _request_count[c], lrt |-> _last_request_time[c], slept |-> 0]

\* DataSource._enforce_rate_limit
BaseEnforceRateLimit(limit, st) ==
    LET reset     == BaseWindowPassed(st.t, st.lrt)
        cnt       == IF reset THEN 0 ELSE st.cnt
        lrt       == IF reset THEN st.t ELSE st.lrt
        wait_time == WindowSeconds - WholeSeconds(st.t - lrt)
        sleeps    == cnt >= limit /\ wait_time > 0
        woken     == st.t + wait_time * Second
    IN  IF sleeps
        THEN [t |-> woken, cnt |-> 0 + 1, lrt |-> woken, slept |-> wait_time * Second]
        ELSE [t |-> st.t, cnt |-> cnt + 1, lrt |-> lrt, slept |-> 0]

\* DataSource.get_rate_limit_status, which no client overrides
get_rate_limit_status(c) ==
    [limit |-> RateLimitOf(c),
     used |-> _request_count[c],
     remaining |-> Max(0, RateLimitOf(c) - _request_count[c]),
     reset_time |-> "None"]

-----------------------------------------------------------------------------
(* get_data and get_metadata                                                *)

\* the observation dates the source may hold inside the requested range
Dates == {1, 2}

\* how the fetch of one variable ends once the limiter let it through: a
\* series with observations on some dates, an empty series, or an exception
\* of any kind
Series(dates) == [kind |-> "series", dates |-> dates]

FetchOutcomes ==
    {[kind |-> "empty"], [kind |-> "error"]}
    \cup {Series(S) : S \in (SUBSET Dates) \ {{}}}

\* how the metadata request of one variable ends
MetaOutcomes == {[kind |-> k] : k \in {"found", "absent", "error"}}

\* a dict, in insertion order; d[key] = value keeps the place of a key the
\* dict already holds
EmptyDict == [keys |-> <<>>, values |-> <<>>]

\* mutant: the dict is replaced instead of updated
DictSetOverwrite(d, key, value) == [keys |-> <<key>>, values |-> <<value>>]

DictSet(d, key, value) ==
    IF \E j \in DOMAIN d.keys : d.keys[j] = key
    THEN [d EXCEPT !.values = [j \in DOMAIN d.values |->
                                  IF d.keys[j] = key THEN value ELSE d.values[j]]]
    ELSE [keys |-> Append(d.keys, key), values |-> Append(d.values, value)]

\* mutant: the first variable the limiter refuses ends the loop
RECURSIVE VariableLoopAborts(_, _, _, _, _, _)
VariableLoopAborts(c, variable_list, outcomes, good, i, acc) ==
    IF i > Len(variable_list) THEN acc
    ELSE LET lim == EnforceRateLimit(c, acc.st)
             v   == variable_list[i]
             ev  == [variable |-> v, admitted |-> lim.exc = NoExc, at |-> lim.st.t]
         IN IF lim.exc # NoExc
            THEN [acc EXCEPT !.st = lim.st, !.failed = Append(@, v),
                             !.trace = Append(@, ev)]
            ELSE VariableLoopAborts(c, variable_list, outcomes, good, i + 1,
                     [acc EXCEPT
                        !.st = lim.st,
                        !.requests = @ + 1,
                        !.kept = IF outcomes[i].kind = good
                                 THEN DictSet(@, v, outcomes[i]) ELSE @,
                        !.failed = IF outcomes[i].kind = good THEN @ ELSE Append(@, v),
                        !.trace = Append(@, ev)])

\* The per-variable loop of get_data / get_metadata from variable i on.
\* acc: the limiter state, the dict of the variables kept, the variables
\* that failed, the HTTP requests sent and, per variable in the order
\* processed, whether the limiter let it through and when.
RECURSIVE VariableLoop(_, _, _, _, _, _)
VariableLoop(c, variable_list, outcomes, good, i, acc) ==
    IF i > Len(variable_list) THEN acc
    ELSE LET lim == EnforceRateLimit(c, acc.st)
             v   == variable_list[i]
             ev  == [variable |-> v, admitted |-> lim.exc = NoExc, at |-> lim.st.t]
         IN IF lim.exc # NoExc
            THEN VariableLoop(c, variable_list, outcomes, good, i + 1,
                     [acc EXCEPT !.st = lim.st, !.failed = Append(@, v),
                                 !.trace = Append(@, ev)])
            ELSE VariableLoop(c, variable_list, outcomes, good, i + 1,
                     [acc EXCEPT
                        !.st = lim.st,
                        !.requests = @ + 1,
                        !.kept = IF outcomes[i].kind = good
                                 THEN DictSet(@, v, outcomes[i]) ELSE @,
                        !.failed = IF outcomes[i].kind = good THEN @ ELSE Append(@, v),
                        !.trace = Append(@, ev)])

RunLoop(c, variable_list, outcomes, good) ==
    VariableLoop(c, variable_list, outcomes, good, 1,
                 [st |-> Limiter(c), kept |-> EmptyDict, failed |-> <<>>,
                  requests |-> 0, trace |-> <<>>])

\* a cell of the table: an observation, or the absent value (NaN)
Cell(variable, date, present) ==
    [variable |-> variable, date |-> date, absent |-> ~present]

\* combined_df = pd.DataFrame(); for variable, series in all_data.items():
\* combined_df[variable] = series.  Assigning a Series to a column of an
\* empty frame gives the frame the index of that Series; every later
\* assignment is aligned to the index the frame already has.
CombineSeries(all_data) ==
    LET index == all_data.values[1].dates
    IN  [columns |-> all_data.keys,
         index   |-> index,
         cells   |-> [j \in DOMAIN all_data.keys |->
                        [d \in index |->
                            Cell(all_data.keys[j], d, d \in all_data.values[j].dates)]]]

NotConnected(c) ==
    ConnectionError(IF Kind[c] = "FRED" THEN "Not connected to FRED API"
                    ELSE "Not connected to Haver Analytics API", "None", 0)

\* mutant: every check stamps last_request_time, the refused ones too
StoreLimiterStamped(c, st) ==
    /\ now' = st.t
    /\ last_request_time' = [last_request_time EXCEPT ![c] = st.t]
    /\ requests_this_minute' =
          IF c \in FredClients THEN [requests_this_minute EXCEPT ![c] = st.cnt]
          ELSE requests_this_minute
    /\ minute_window_start' =
          IF c \in FredClients THEN [minute_window_start EXCEPT ![c] = st.ws]
          ELSE minute_window_start

\* mutant: the limiter fields are shared by the clients of a class
StoreLimiterShared(c, st) ==
    /\ now' = st.t
    /\ last_request_time' =
          [d \in Clients |-> IF Kind[d] = Kind[c] THEN st.lrt ELSE last_request_time[d]]
    /\ requests_this_minute' =
          IF c \in FredClients THEN [d \in FredClients |-> st.cnt]
          ELSE requests_this_minute
    /\ minute_window_start' =
          IF c \in FredClients THEN [d \in FredClients |-> st.ws]
          ELSE minute_window_start

\* the limiter state written back to the client
StoreLimiter(c, st) ==
    /\ now' = st.t
    /\ last_request_time' = [last_request_time EXCEPT ![c] = st.lrt]
    /\ requests_this_minute' =
          IF c \in FredClients THEN [requests_this_minute EXCEPT ![c] = st.cnt]
          ELSE requests_this_minute
    /\ minute_window_start' =
          IF c \in FredClients THEN [minute_window_start EXCEPT ![c] = st.ws]
          ELSE minute_window_start

\* mutant: the connection check is missing
RequireNothing(c) == NoExc

\* the first check of get_data and get_metadata
RequireConnected(c) == IF is_connected[c] THEN NoExc ELSE NotConnected(c)

\* get_data(variables, start_date, end_date), the source answering each
\* fetch with one of `answers`
GetDataWith(c, variables, start_date, end_date, answers) ==
    LET arg   == <<variables, start_date, end_date>>
        conn  == RequireConnected(c)
        vars_ == validate_variable_codes(variables)
        dates == validate_and_convert_dates(start_date, end_date)
        fail(e) == /\ last' = Op("get_data", c, arg, e, "None", 0, <<>>, 0)
                              @@ [trace |-> <<>>]
                   /\ UNCHANGED <<now, clientVars>>
    IN  /\ UNCHANGED <<created, inWith, wcall, wres>>
        /\ IF conn # NoExc THEN fail(conn)
           ELSE IF vars_.kind = "raise" THEN fail(vars_.exc)
           ELSE IF dates.kind = "raise" THEN fail(dates.exc)
           ELSE \E outcomes \in [1..Len(vars_.value) -> answers] :
                \E run \in {RunLoop(c, vars_.value, outcomes, "series")} :
                  /\ run.st.t <= ClockEnd
                  /\ StoreLimiter(c, run.st)
                  /\ UNCHANGED <<is_connected, session>>
                  /\ last' = (IF run.kept = EmptyDict
                              THEN Op("get_data", c, arg,
                                      DataRetrievalError("No data retrieved",
                                          vars_.value, dates.value, 0),
                                      "None", 0, <<run.st.slept>>, run.requests)
                              ELSE Op("get_data", c, arg, NoExc,
                                      CombineSeries(run.kept),
                                      0, <<run.st.slept>>, run.requests))
                             @@ [trace |-> run.trace, outcomes |-> outcomes]

GetData(c, variables, start_date, end_date) ==
    GetDataWith(c, variables, start_date, end_date, FetchOutcomes)

\* get_metadata(variables), the source answering each request with one of
\* `answers`
GetMetadataWith(c, variables, answers) ==
    LET arg   == <<variables>>
        conn  == RequireConnected(c)
        vars_ == validate_variable_codes(variables)
        fail(e) == /\ last' = Op("get_metadata", c, arg, e, "None", 0, <<>>, 0)
                              @@ [trace |-> <<>>]
                   /\ UNCHANGED <<now, clientVars>>
    IN  /\ UNCHANGED <<created, inWith, wcall, wres>>
        /\ IF conn # NoExc THEN fail(conn)
           ELSE IF vars_.kind = "raise" THEN fail(vars_.exc)
           ELSE \E outcomes \in [1..Len(vars_.value) -> answers] :
                \E run \in {RunLoop(c, vars_.value, outcomes, "found")} :
                  /\ run.st.t <= ClockEnd
                  /\ StoreLimiter(c, run.st)
                  /\ UNCHANGED <<is_connected, session>>
                  /\ last' = Op("get_metadata", c, arg, NoExc,
                                [keys |-> run.kept.keys],
                                0, <<run.st.slept>>, run.requests)
                             @@ [trace |-> run.trace, outcomes |-> outcomes]

GetMetadata(c, variables) == GetMetadataWith(c, variables, MetaOutcomes)

\* mutant: a variable without metadata is not reported
MissingMetadataIgnored(variable) == NoExc

\* get_variable_metadata: `variable` is not a key of the mapping
MissingMetadata(variable) ==
    DataRetrievalError("No metadata found for variable", <<variable>>, <<>>, 0)

\* get_variable_metadata(variable): get_metadata([variable]), then the entry
\* of `variable` (as passed, not as cleaned) or DataRetrievalError
GetVariableMetadata(c, variable) ==
    LET arg   == <<variable>>
        conn  == RequireConnected(c)
        vars_ == validate_variable_codes(<<variable>>)
        fail(e) == /\ last' = Op("get_variable_metadata", c, arg, e, "None", 0, <<>>, 0)
                              @@ [trace |-> <<>>]
                   /\ UNCHANGED <<now, clientVars>>
    IN  /\ UNCHANGED <<created, inWith, wcall, wres>>
        /\ IF conn # NoExc THEN fail(conn)
           ELSE IF vars_.kind = "raise" THEN fail(vars_.exc)
           ELSE \E outcomes \in [1..Len(vars_.value) -> MetaOutcomes] :
                \E run \in {RunLoop(c, vars_.value, outcomes, "found")} :
                  LET found == \E j \in DOMAIN run.kept.keys :
                                   run.kept.keys[j] = variable.chars
                  IN  /\ run.st.t <= ClockEnd
                      /\ StoreLimiter(c, run.st)
                      /\ UNCHANGED <<is_connected, session>>
                      /\ last' = Op("get_variable_metadata", c, arg,
                                    IF found THEN NoExc
                                    ELSE MissingMetadata(variable.chars),
                                    IF found THEN [code |-> variable.chars] ELSE "None",
                                    0, <<run.st.slept>>, run.requests)
                                 @@ [trace |-> run.trace, outcomes |-> outcomes]

\* the calls the program makes
CodeA == Str(<<"A">>)
CodeB == Str(<<" ", "b">>)
Blank == Str(<<" ">>)
VariableArgs == {<<CodeA>>, <<CodeA, CodeB>>, <<CodeA, Blank>>, <<NonStr>>}
DateArgs == {<<Date(20230101), Date(20230131)>>, <<Date(20230131), Date(20230101)>>,
             <<Date(18991231), Date(20230101)>>, <<NoDate, NoDate>>,
             <<BadDateString, Date(20230131)>>}
\* the get_data calls: every variables argument with valid dates, every
\* dates argument with a valid code, and both arguments invalid
DataCalls ==
    {<<v, <<Date(20230101), Date(20230131)>> >> : v \in VariableArgs}
    \cup {<< <<CodeA>>, d>> : d \in DateArgs}
    \cup {<< <<NonStr>>, <<BadDateString, Date(20230131)>> >>}

-----------------------------------------------------------------------------
(* with-block protocol (__enter__ / __exit__)                               *)

\* __enter__: self.connect(); the block is entered when connect returned
WithEnter(c) ==
    /\ ~inWith[c]
    /\ \E responses \in BasicProbeSequences(c) : DoConnect(c, "__enter__", responses)
    /\ inWith' = [inWith EXCEPT ![c] = (last'.exc = NoExc)]
    /\ UNCHANGED <<created, wcall, wres>>

\* mutant: __exit__ returns True, which swallows the exception
ExitReturnsTrue(c) == "True"

\* what __exit__ returns: the clients' __exit__ has no return statement
ExitReturn(c) == "None"

Truthy(v) == v \notin {"None", "False"}

\* exceptions the body of a with-block may end with
BodyExceptions == {Foreign("ValueError", "body"),
                   DataRetrievalError("No data retrieved", <<>>, <<>>, 0)}

\* control leaves the block, normally (NoExc) or by exception body_exc:
\* __exit__ runs disconnect(); a falsy return lets the exception propagate
WithExit(c, body_exc) ==
    /\ inWith[c]
    /\ DoDisconnect(c)
    /\ inWith' = [inWith EXCEPT ![c] = FALSE]
    /\ last' = Op("__exit__", c, body_exc,
                  IF Truthy(ExitReturn(c)) THEN NoExc ELSE body_exc,
                  ExitReturn(c), 0, <<>>, 0)
    /\ UNCHANGED <<created, wcall, wres>>

\* time passes between two operations of the caller
\* os.environ without the credential variables
EnvNames == {"FRED_API_KEY", "HAVER_USERNAME", "HAVER_PASSWORD"}
NoEnviron == [k \in EnvNames |-> Absent]

\* no config dictionary (None or {}), no keyword arguments
NoConfig == [api_key |-> Absent, username |-> Absent, password |-> Absent]
NoKwargs == NoConfig @@ [extra |-> FALSE]

\* The credentials the program is run with.  As call-time arguments: none,
\* the empty string, a well-formed value, a value the constructor rejects
\* ("invalid", "u", "p").  In config and in the environment: none or a
\* well-formed value.  The username given at call time has a blank after it.
GoodKey(s)  == Text(s, ApiKeyLen, 0, TRUE)
GoodUser(s) == Text(s, MinUsernameLen + 6, 0, TRUE)
GoodPass(s) == Text(s, MinPasswordLen + 7, 0, TRUE)
Empty == Text("", 0, 0, FALSE)
KwargsArgs ==
    [api_key  : {Absent, Empty, GoodKey("kwargs_key"), Text("invalid", 7, 0, TRUE)},
     username : {Absent, Empty, Text("kwargs_user", MinUsernameLen + 7, 1, FALSE),
                 Text("u", 1, 0, TRUE)},
     password : {Absent, Empty, GoodPass("kwargs_password"), Text("p", 1, 0, TRUE)},
     extra    : BOOLEAN]
ConfigArgs ==
    [api_key  : {Absent, GoodKey("config_key")},
     username : {Absent, GoodUser("config_user")},
     password : {Absent, GoodPass("config_password")}]
Environs ==
    {e \in [EnvNames -> {Absent, GoodKey("env_key"), GoodUser("env_user"),
                         GoodPass("env_password")}] :
        /\ e.FRED_API_KEY \in {Absent, GoodKey("env_key")}
        /\ e.HAVER_USERNAME \in {Absent, GoodUser("env_user")}
        /\ e.HAVER_PASSWORD \in {Absent, GoodPass("env_password")}}

\* every spelling of `word` in upper and lower case
Capital(ch) ==
    CASE ch = "f" -> "F" [] ch = "r" -> "R" [] ch = "e" -> "E" [] ch = "d" -> "D"
      [] ch = "h" -> "H" [] ch = "a" -> "A" [] ch = "v" -> "V" [] OTHER -> ch
CaseVariants(word) ==
    {s \in [DOMAIN word -> {word[i] : i \in DOMAIN word}
                            \cup {Capital(word[i]) : i \in DOMAIN word}] :
        \A i \in DOMAIN word : s[i] \in {word[i], Capital(word[i])}}
Padded(chars) == {chars, <<" ">> \o chars, chars \o <<" ">>, <<" ">> \o chars \o <<" ">>}

\* the source identifiers: every spelling of "fred" and "haver", bare and
\* with blanks around, other words, the empty string, a blank, not a string
SourceTypes ==
    {Str(p) : p \in UNION {Padded(w) : w \in CaseVariants(<<"f", "r", "e", "d">>)
                                            \cup CaseVariants(<<"h", "a", "v", "e", "r">>)}}
    \cup {Str(<<"f", "r", "e", "d", "s">>), Str(<<"f", "r", " ", "e", "d">>),
          Str(<<>>), Str(<<" ">>), NonStr}

\* client = create_data_source(source_type, config=config, **kwargs)
CreateDataSource(source_type, config, kwargs) ==
    LET made == create_data_source(source_type, config, kwargs, environ)
    IN  /\ last' = Op("create_data_source", "None", <<source_type, config, kwargs>>,
                      IF made.kind = "raise" THEN made.exc ELSE NoExc,
                      IF made.kind = "raise" THEN Absent ELSE made.value,
                      0, <<>>, 0)
                   @@ [source_class |-> SourceClass(source_type)]
        /\ UNCHANGED <<created, now, clientVars, inWith, wcall, wres>>

\* the longest list of variables the validator is called with
MaxListLen == 3

\* the entries of a variables argument: codes with blanks around, in lower
\* case, of 50 and of 51 characters, with characters that are not letters,
\* digits, `_` or `-`, a blank string, an entry that is not a string
LongCode(n) == Str([i \in 1..n |-> "A"])
CodeEntries ==
    {CodeA, CodeB, Blank, NonStr, LongCode(MaxCodeLen), LongCode(MaxCodeLen + 1),
     Str(<<"A", "_", "b", "-", "0">>), Str(<<"A", "/", "b">>), Str(<<"a", " ", "b">>),
     Str(<<"A", "?">>)}
VariablesArgs ==
    {ListArg(l) : l \in UNION {[1..n -> CodeEntries] : n \in 0..MaxListLen}}
    \cup {StringArg(e) : e \in CodeEntries \ {NonStr}} \cup {OtherArg}

\* the dates: around both bounds and inside them, None, an unparsable string
DateValues ==
    {NoDate, BadDateString, Date(18991231), Date(MinDate), Date(20230101),
     Date(20230131), Date(MaxDate), Date(20310101)}

\* validate_variable_codes(variables)
ValidateVariableCodes(variables) ==
    LET l   == var_list(variables)
        out == IF l.kind = "raise" THEN l ELSE validate_variable_codes(l.value)
    IN  /\ last' = Op("validate_variable_codes", "None", variables,
                      IF out.kind = "raise" THEN out.exc ELSE NoExc,
                      IF out.kind = "raise" THEN <<>> ELSE out.value, 0, <<>>, 0)
        /\ UNCHANGED <<created, now, clientVars, inWith, wcall, wres>>

\* validate_and_convert_dates(start_date, end_date)
ValidateAndConvertDates(start_date, end_date) ==
    LET out == validate_and_convert_dates(start_date, end_date)
    IN  /\ last' = Op("validate_and_convert_dates", "None", <<start_date, end_date>>,
                      IF out.kind = "raise" THEN out.exc ELSE NoExc,
                      IF out.kind = "raise" THEN <<>> ELSE out.value, 0, <<>>, 0)
        /\ UNCHANGED <<created, now, clientVars, inWith, wcall, wres>>

Advance(d) ==
    /\ now + d <= ClockEnd
    /\ now' = now + d
    /\ last' = Op("advance", "None", d, NoExc, "None", 0, <<>>, 0)
    /\ UNCHANGED <<created, clientVars, inWith, wcall, wres>>

\* the decorator applied to the drawn call
CallWrapped ==
    /\ wres = Pending
    /\ wres' = wrapper(wcall.retry_count, wcall.retry_delay, wcall.backoff_factor,
                       wcall.retriable, "func", wcall.outcomes)
    /\ UNCHANGED <<created, now, clientVars, inWith, last, wcall>>

NoOp == Op("init", "None", "None", NoExc, "None", 0, <<>>, 0)

\* the state after construction (__init__ of both clients)
ClientsInit ==
    /\ created \in {"f1", "h1"}
    /\ now = 0
    /\ is_connected = [c \in Clients |-> FALSE]
    /\ session = [c \in Clients |-> "None"]
    /\ last_request_time = [c \in Clients |-> DatetimeMin]
    /\ requests_this_minute = [c \in FredClients |-> 0]
    /\ minute_window_start = [c \in FredClients |-> DatetimeMin]
    /\ inWith = [c \in Clients |-> FALSE]
    /\ last = NoOp
    /\ admitted = [c \in Clients |-> <<>>]
    /\ previous = NoOp
    /\ _request_count = [c \in Instances |-> 0]
    /\ _last_request_time = [c \in Instances |-> NoTime]

Init ==
    /\ ClientsInit
    /\ environ = NoEnviron
    /\ wcall = NoCall
    /\ wres = [invocations |-> 0, sleeps |-> <<>>, outcome |-> [kind |-> "none"]]

Next ==
    /\ \/ Connect(created, BasicProbeSequences(created)) /\ now' <= Horizon
       \/ Disconnect(created)
       \/ \E call \in DataCalls :
             GetData(created, call[1], call[2][1], call[2][2]) /\ now' <= Horizon
       \/ \E v \in VariableArgs : GetMetadata(created, v) /\ now' <= Horizon
       \/ \E v \in VariableArgs : GetVariableMetadata(created, v[1]) /\ now' <= Horizon
       \/ WithEnter(created) /\ now' <= Horizon
       \/ \E e \in BodyExceptions \cup {NoExc} : WithExit(created, e)
       \/ Advance(HalfSecond) /\ now' <= Horizon
    /\ UNCHANGED <<admitted, environ, previous, baseVars>>

Spec == Init /\ [][Next]_vars

\* connect() against every behaviour of the source, disconnect() and the clock
NextConnect ==
    /\ \/ Connect(created, ProbeSequences(created)) /\ now' <= MaxTime
       \/ Disconnect(created)
       \/ TestConnection(created, BasicProbeSequences(created)) /\ now' <= MaxTime
       \/ Advance(HalfSecond) /\ now' <= MaxTime
    /\ UNCHANGED <<admitted, environ, previous, baseVars>>

SpecConnect == Init /\ [][NextConnect]_vars

\* A program that connects and then only fetches, with valid arguments, at
\* any pace: the limiters over several windows.
LimiterVariableArgs == {<<CodeA>>, <<CodeA, CodeB>>}

ProbeAccepted(c) == [i \in 1..(RetryCount(c) + 1) |-> Response(200, "na")]

\* the waits of the caller between two calls: half a second, at most Paces
\* times in a row, or most of a window
LongWait == WindowTicks - Second
ShortWait(d) == d = HalfSecond /\ (now % LongWait) < Paces
Waits == {HalfSecond, LongWait}

LastN(s, n) == IF Len(s) <= n THEN s ELSE SubSeq(s, Len(s) - n + 1, Len(s))

\* the requests the limiter counted in the operation `l`, which ended at t:
\* the probe of a connect() that returned, the requests of get_data and
\* get_metadata that the limiter let through
Counted(l, t) ==
    IF l.op \in {"connect", "__enter__"}
    THEN IF l.exc = NoExc THEN <<[at |-> t, kind |-> "probe"]>> ELSE <<>>
    ELSE IF l.op \in {"get_data", "get_metadata"}
    THEN LET sent == SelectSeq(l.trace, LAMBDA e : e.admitted)
         IN  [i \in DOMAIN sent |-> [at |-> sent[i].at, kind |-> "request"]]
    ELSE <<>>

\* the history of the counted requests, the latest rate_limit + 1 of them
Record(c) ==
    admitted' = [admitted EXCEPT
                    ![c] = LastN(@ \o Counted(last', now'), rate_limit(c) + 1)]

NextLimiter ==
    /\ \/ Connect(created, {ProbeAccepted(created)})
       \/ \E v \in LimiterVariableArgs :
             GetDataWith(created, v, Date(20230101), Date(20230131), {Series(Dates)})
       \/ \E v \in LimiterVariableArgs :
             GetMetadataWith(created, v, {[kind |-> "found"]})
       \/ \E d \in Waits : (d = LongWait \/ ShortWait(d)) /\ Advance(d)
    /\ Record(created)
    /\ UNCHANGED <<environ, previous, baseVars>>

SpecLimiter == Init /\ [][NextLimiter]_vars

\* A program that calls the factory once: with every identifier and
\* well-formed credentials, and with every mix of credentials for "fred" and
\* "HAVER".
WellFormedKwargs ==
    {NoKwargs,
     [NoKwargs EXCEPT !.api_key = GoodKey("kwargs_key")],
     [NoKwargs EXCEPT !.username = Text("kwargs_user", MinUsernameLen + 7, 1, FALSE),
                      !.password = GoodPass("kwargs_password")]}

InitFactory ==
    /\ ClientsInit
    /\ environ \in Environs
    /\ wcall = NoCall
    /\ wres = [invocations |-> 0, sleeps |-> <<>>, outcome |-> [kind |-> "none"]]

NextFactory ==
    /\ last = NoOp
    /\ \/ \E source_type \in SourceTypes : \E kwargs \in WellFormedKwargs :
             CreateDataSource(source_type, NoConfig, kwargs)
       \/ \E source_type \in {Str(<<"f", "r", "e", "d">>), Str(<<"H", "A", "V", "E", "R">>)} :
          \E config \in ConfigArgs : \E kwargs \in KwargsArgs :
             CreateDataSource(source_type, config, kwargs)
    /\ UNCHANGED <<admitted, environ, previous, baseVars>>

SpecFactory == InitFactory /\ [][NextFactory]_vars

\* A program that calls one of the validators once.
NextValidate ==
    /\ last = NoOp
    /\ \/ \E variables \in VariablesArgs : ValidateVariableCodes(variables)
       \/ \E start_date \in DateValues : \E end_date \in DateValues :
             ValidateAndConvertDates(start_date, end_date)
    /\ UNCHANGED <<admitted, environ, previous, baseVars>>

SpecValidate == Init /\ [][NextValidate]_vars

\* one code in several spellings: as the source lists it, in lower case,
\* with blanks around
SpelledCodes == {CodeA, Str(<<"a">>), CodeB, Str(<<"B", " ">>)}

\* A program that connects and asks for the metadata of one variable, by
\* get_metadata([v]) or by get_variable_metadata(v).
NextMetadata ==
    /\ \/ Connect(created, {ProbeAccepted(created)}) /\ now' <= Horizon
       \/ \E v \in SpelledCodes : GetMetadata(created, <<v>>) /\ now' <= Horizon
       \/ \E v \in SpelledCodes : GetVariableMetadata(created, v) /\ now' <= Horizon
       \/ Advance(HalfSecond) /\ now' <= Horizon
    /\ UNCHANGED <<admitted, environ, previous, baseVars>>

SpecMetadata == Init /\ [][NextMetadata]_vars

\* counts of the generic limiter above this are not followed
MaxBaseCount == 4

\* source._enforce_rate_limit() on a source that keeps DataSource's limiter
BaseEnforce(c) ==
    \E st \in {BaseEnforceRateLimit(RateLimitOf(c), BaseLimiter(c))} :
      /\ st.t <= ClockEnd
      /\ st.cnt <= MaxBaseCount
      /\ now' = st.t
      /\ _request_count' = [_request_count EXCEPT ![c] = st.cnt]
      /\ _last_request_time' = [_last_request_time EXCEPT ![c] = st.lrt]
      /\ last' = Op("_enforce_rate_limit", c, "None", NoExc, "None",
                    0, <<st.slept>>, 0)
                 @@ [limiter |-> BaseLimiter(c), after |-> st]
      /\ UNCHANGED <<created, clientVars, inWith, wcall, wres>>

\* source.get_rate_limit_status()
GetRateLimitStatus(c) ==
    /\ last' = Op("get_rate_limit_status", c, "None", NoExc,
                  get_rate_limit_status(c), 0, <<>>, 0)
    /\ UNCHANGED <<created, now, clientVars, baseVars, inWith, wcall, wres>>

\* A generic source whose requests go through DataSource's limiter and a
\* FRED client, each asked for its rate-limit status at any time.
NextBase ==
    /\ \/ BaseEnforce(Generic)
       \/ \E c \in {Generic, "f1"} : GetRateLimitStatus(c)
       \/ /\ \/ Connect("f1", {ProbeAccepted("f1")})
             \/ GetDataWith("f1", <<CodeA>>, Date(20230101), Date(20230131),
                            {Series(Dates)})
             \/ \E d \in Waits : (d = LongWait \/ ShortWait(d)) /\ Advance(d)
          /\ UNCHANGED baseVars
    /\ UNCHANGED <<admitted, environ, previous>>

InitBase == Init /\ created = "f1"

SpecBase == InitBase /\ [][NextBase]_vars

\* A program with three clients, two of them FRED clients made with the
\* same key, that uses them in any order.
InstanceAnswers == {Series(Dates), [kind |-> "empty"]}

\* the clock of the runs of several instances stops here
InstanceHorizon == 2

InitInstances == Init /\ created = "f1"

\* two FRED clients and a Haver client created side by side, every one
\* operated in any order
NextInstances ==
    /\ \/ \E c \in FredClients :
             \/ Connect(c, {ProbeAccepted(c)})
             \/ Disconnect(c)
             \/ GetDataWith(c, <<CodeA>>, Date(20230101), Date(20230131), InstanceAnswers)
             \/ GetMetadataWith(c, <<CodeA>>, {[kind |-> "found"]})
       \/ \E c \in Clients \ FredClients :
             \/ Connect(c, {ProbeAccepted(c)})
             \/ Disconnect(c)
    /\ now' <= InstanceHorizon
    /\ previous' = IF last.op = "get_data" THEN last ELSE NoOp
    /\ UNCHANGED <<admitted, environ, baseVars>>

SpecInstances == InitInstances /\ [][NextInstances]_vars

InitRetry ==
    /\ ClientsInit
    /\ environ = NoEnviron
    /\ wcall \in WrappedCalls
    /\ wres = Pending

NextRetry == CallWrapped /\ UNCHANGED <<admitted, environ, previous, baseVars>>

SpecRetry == InitRetry /\ [][NextRetry]_vars

-----------------------------------------------------------------------------
(* Properties                                                               *)

\* C1: whenever control leaves a with-block that was entered, normally or by
\* an exception, the client is disconnected afterwards (is_connected false,
\* session None) and the exception raised in the block propagates.
C1_WithExitDisconnects ==
    last.op = "__exit__" =>
        /\ ~is_connected[last.client]
        /\ session[last.client] = "None"
        /\ last.exc = last.arg

\* C1 witness: a block left by an exception while the client was connected
C1_Witness ==
    /\ last.op = "__exit__"
    /\ last.arg = Foreign("ValueError", "body")
    /\ last.before.is_connected
    /\ ~is_connected[last.client]

\* C2: disconnect() never raises and leaves is_connected false and session
\* None from every state; a second disconnect() changes nothing.
C2_DisconnectIdempotent ==
    [][/\ last'.op = "disconnect" =>
            /\ last'.exc = NoExc
            /\ ~is_connected'[last'.client]
            /\ session'[last'.client] = "None"
       /\ (last.op = "disconnect" /\ last'.op = "disconnect"
              /\ last'.client = last.client) =>
            /\ clientVars' = clientVars
            /\ now' = now]_vars

\* C2 witness: disconnect() after a failed connect (a session, not connected)
C2_Witness ==
    /\ last.op = "disconnect"
    /\ last.before = [is_connected |-> FALSE, session |-> "Session"]
    /\ session[last.client] = "None"

\* C3: get_data and get_metadata on a client that is not connected raise
\* ConnectionFailure whatever their arguments, leave the limiter state and
\* the clock alone and send no request.
C3_NotConnectedFirst ==
    [][(last'.op \in {"get_data", "get_metadata"} /\ ~is_connected[last'.client]) =>
            /\ last'.exc = NotConnected(last'.client)
            /\ last'.requests = 0
            /\ UNCHANGED <<now, clientVars>>]_vars

\* C3 witness: get_data with arguments validation rejects, not connected
C3_Witness ==
    /\ last.op = "get_data"
    /\ ~last.before.is_connected
    /\ last.arg[1] = <<NonStr>>
    /\ last.arg[2] = BadDateString
    /\ IsInstance(last.exc, "ConnectionError")

\* C4: a connect() that returns, returns True and leaves the client
\* connected with a session and the limiter initialised at the current time
\* (FRED: window start and last request now, counter 1; Haver: last request
\* now).
C4_ConnectInitialises ==
    (last.op = "connect" /\ last.exc = NoExc) =>
        LET c == last.client
        IN  /\ last.ret = "True"
            /\ is_connected[c]
            /\ session[c] = "Session"
            /\ last_request_time[c] = now
            /\ c \in FredClients =>
                  /\ minute_window_start[c] = now
                  /\ requests_this_minute[c] = 1

\* C4 witness: a FRED connect() that succeeded on its last attempt
C4_Witness ==
    /\ last.op = "connect"
    /\ last.exc = NoExc
    /\ last.client \in FredClients
    /\ last.invocations = FredRetryCount + 1
    /\ now > 0

\* C5: after every connect() that raises the client is not connected.
C5_FailedConnectDisconnected ==
    (last.op = "connect" /\ last.exc # NoExc) => ~is_connected[last.client]

\* the source rejected the credentials of the probe
Rejected(c, r) ==
    /\ r.t = "response"
    /\ IF Kind[c] = "FRED"
       THEN r.status = 401 \/ (r.status = 400 /\ r.body = "api_key_message")
       ELSE r.status \in {401, 403}

\* C6: a probe the source rejects is the last probe of the connect() call:
\* AuthenticationFailure is raised at once, with no sleep after it, so a
\* rejected first probe gives one request and no sleep at all.
C6_RejectionNotRetried ==
    last.op = "connect" =>
        \A i \in 1..last.invocations :
            Rejected(last.client, last.arg[i]) =>
                /\ i = last.invocations
                /\ IsInstance(last.exc, "AuthenticationError")
                /\ Len(last.sleeps) = i - 1
                /\ last.requests = i

\* C6 witness: the first probe is rejected
C6_Witness ==
    /\ last.op = "connect"
    /\ Rejected(last.client, last.arg[1])
    /\ last.invocations = 1
    /\ last.sleeps = <<>>

\* the wrapped function's i-th invocation fails with a retriable failure
RetriableOutcome(o) == o.kind = "raise" /\ IsInstanceAny(o.exc, wcall.retriable)

C8_ExhaustedPropagatesLast ==
    (/\ wres # Pending
     /\ \A i \in 1..(wcall.retry_count + 1) : RetriableOutcome(wcall.outcomes[i])) =>
        /\ wres.invocations = wcall.retry_count + 1
        /\ Len(wres.sleeps) = wcall.retry_count
        /\ wres.outcome = wcall.outcomes[wcall.retry_count + 1]

\* C8 witness: retries exhausted, the first and the last failure differ
C8_Witness ==
    /\ wres # Pending
    /\ wcall.retry_count >= 1
    /\ \A i \in 1..(wcall.retry_count + 1) : RetriableOutcome(wcall.outcomes[i])
    /\ wcall.outcomes[1] # wcall.outcomes[wcall.retry_count + 1]
    /\ wres.invocations = wcall.retry_count + 1

ForeignOutcome(o) == o.kind = "raise" /\ o.exc.type \notin DomainTypes

\* C10: an exception outside the taxonomy raised by the body of connect()
\* ends the call at that invocation and is replaced by the base failure with
\* code UNEXPECTED_ERROR naming the original kind and the operation; every
\* failure connect() raises is a failure of the taxonomy.
C10_UnexpectedWrapped ==
    last.op = "connect" =>
        /\ last.exc # NoExc => last.exc.type \in DomainTypes
        /\ \A i \in 1..last.invocations :
              LET o == ConnectBody(last.client, last.arg[i])
              IN  ForeignOutcome(o) =>
                    /\ i = last.invocations
                    /\ last.exc.type = "FederalReserveETLError"
                    /\ last.exc.error_code = "UNEXPECTED_ERROR"
                    /\ last.exc.context["original_exception"] = o.exc.type
                    /\ last.exc.context["function_name"] = "connect"

\* C10 witness: a transport exception connect() does not handle, on a retry
C10_Witness ==
    /\ last.op = "connect"
    /\ last.invocations > 1
    /\ last.arg[last.invocations] = Transport("TooManyRedirects")
    /\ last.exc.type = "FederalReserveETLError"

\* C10, for any wrapped function: an exception outside the taxonomy is not
\* retried and is wrapped the same way.
C10_WrapperLemma ==
    wres # Pending =>
        \A i \in 1..wres.invocations :
            ForeignOutcome(wcall.outcomes[i]) =>
                /\ i = wres.invocations
                /\ wres.outcome.kind = "raise"
                /\ wres.outcome.exc.type = "FederalReserveETLError"
                /\ wres.outcome.exc.error_code = "UNEXPECTED_ERROR"
                /\ wres.outcome.exc.context["original_exception"]
                      = wcall.outcomes[i].exc.type
                /\ wres.outcome.exc.context["function_name"] = "func"

-----------------------------------------------------------------------------
(* Rate limiters: properties of the runs of SpecLimiter                     *)

\* a get_data / get_metadata call of client kind `kind` that reached its
\* per-variable loop ended in the step
Fetched(l, kind) ==
    /\ l.op \in {"get_data", "get_metadata"}
    /\ Kind[l.client] = kind
    /\ l.trace # <<>>

\* the time of the counted request before the i-th check of the call: an
\* earlier request of the same call, else the client's last_request_time
PreviousRequest(tr, i, lrt) ==
    LET earlier == {j \in 1..(i - 1) : tr[j].admitted}
    IN  IF earlier = {} THEN lrt
        ELSE tr[CHOOSE j \in earlier : \A k \in earlier : k <= j].at

\* C11: FRED limiter with limit N. Inside the 60-second window a request is
\* let through while fewer than N were counted, and counted; once N were
\* counted the next one raises RateLimitFailure; the first request after the
\* window elapsed is let through and the counter is 1 afterwards.
C11_WindowCounter ==
    [][Fetched(last', "FRED") =>
        LET c        == last'.client
            e        == last'.trace[1]
            inWindow == now - minute_window_start[c] < WindowTicks
            single   == Len(last'.trace) = 1
        IN  /\ (inWindow /\ requests_this_minute[c] < rate_limit(c)) =>
                  /\ e.admitted
                  /\ single => requests_this_minute'[c] = requests_this_minute[c] + 1
            /\ (inWindow /\ requests_this_minute[c] >= rate_limit(c)) =>
                  /\ \A i \in DOMAIN last'.trace : ~last'.trace[i].admitted
                  /\ requests_this_minute'[c] = requests_this_minute[c]
            /\ ~inWindow =>
                  /\ e.admitted
                  /\ minute_window_start'[c] = now
                  /\ single => requests_this_minute'[c] = 1]_vars

\* C11 witness: in one call the N-th request of the window is let through
\* and the (N+1)-th refused
C11_Witness ==
    /\ Fetched(last, "FRED")
    /\ Len(last.trace) = 2
    /\ last.trace[1].admitted
    /\ ~last.trace[2].admitted
    /\ requests_this_minute[last.client] = rate_limit(last.client)

\* C12: a FRED client never sends more than L requests in any 60 seconds:
\* L+1 requests in a row, with no connect() between them, span at least a
\* whole window.
C12_SlidingWindow ==
    \A c \in FredClients : \A i \in DOMAIN admitted[c] :
        LET j == i + rate_limit(c)
        IN  (/\ j \in DOMAIN admitted[c]
             /\ \A k \in i..j : admitted[c][k].kind = "request") =>
                admitted[c][j].at - admitted[c][i].at >= WindowTicks

\* C13: the FRED limiter delays a request that arrives less than half a
\* second after the last counted one by the shortfall, so that counted
\* requests are at least half a second apart, and refuses a request only
\* when the counter has reached the limit.
C13_SpacingBlocks ==
    [][Fetched(last', "FRED") =>
        LET c   == last'.client
            tr  == last'.trace
            gap == now - last_request_time[c]
        IN  /\ \A i \in DOMAIN tr : tr[i].admitted =>
                  tr[i].at - PreviousRequest(tr, i, last_request_time[c]) >= HalfSecond
            /\ tr[1].admitted =>
                  tr[1].at = now + (IF gap < HalfSecond THEN HalfSecond - gap ELSE 0)
            /\ (\E i \in DOMAIN tr : ~tr[i].admitted) =>
                  requests_this_minute'[c] >= rate_limit(c)
            /\ \A i \in DOMAIN admitted'[c] \ {1} :
                  admitted'[c][i].kind = "request" =>
                      admitted'[c][i].at - admitted'[c][i - 1].at >= HalfSecond]_vars

\* C13 witness: a request right after the connect probe, sent half a second
\* later
C13_Witness ==
    /\ Fetched(last, "FRED")
    /\ last.trace[1].admitted
    /\ last.sleeps = <<HalfSecond>>
    /\ Len(admitted[last.client]) >= 2
    /\ admitted[last.client][Len(admitted[last.client]) - 1].kind = "probe"

C15_HaverCounter ==
    (Fetched(last, "Haver") /\ last.requests >= 1) => Limiter(last.client).cnt >= 1

-----------------------------------------------------------------------------
(* get_data, get_metadata, test_connection: properties                      *)

\* the variables argument of the call recorded in `l`
VariablesOf(l) == IF l.op = "get_variable_metadata" THEN l.arg ELSE l.arg[1]

\* the call recorded in `l` was made on a connected client with arguments
\* the validators accept
ValidCall(l) ==
    /\ l.before.is_connected
    /\ validate_variable_codes(VariablesOf(l)).kind = "return"
    /\ l.op = "get_data" => validate_and_convert_dates(l.arg[2], l.arg[3]).kind = "return"

\* the variables of the call, cleaned, in request order
Requested(l) == validate_variable_codes(VariablesOf(l)).value

\* the positions whose request was sent and answered with `good`
Retrieved(l, good) ==
    {i \in DOMAIN l.trace : l.trace[i].admitted /\ l.outcomes[i].kind = good}

C18_OuterJoin ==
    (last.op = "get_data" /\ ValidCall(last) /\ last.exc = NoExc) =>
        LET got == Retrieved(last, "series")
        IN  /\ last.ret.index = UNION {last.outcomes[i].dates : i \in got}
            /\ \A i \in got : \A d \in last.outcomes[i].dates :
                  \E j \in DOMAIN last.ret.columns :
                      /\ last.ret.columns[j] = last.trace[i].variable
                      /\ d \in DOMAIN last.ret.cells[j]
                      /\ ~last.ret.cells[j][d].absent

C20_TestConnection ==
    last.op = "test_connection" =>
        /\ last.exc = NoExc
        /\ last.ret = (IF last.connect.kind = "return" THEN "True" ELSE "False")
        /\ ~is_connected[last.client]

\* the exception classes get_data documents (fred_client.py:297-301)
GetDataFailures == {"ValidationError", "DataRetrievalError", "ConnectionError"}

\* C21: get_data on a connected client returns a table or raises a
\* ValidationFailure, DataRetrievalFailure or ConnectionFailure, whatever its
\* arguments are, omitted (None) dates included.
C21_TypedFailures ==
    (last.op = "get_data" /\ last.before.is_connected) =>
        \/ last.exc = NoExc
        \/ \E cls \in GetDataFailures : IsInstance(last.exc, cls)

-----------------------------------------------------------------------------
(* Factory: properties of the runs of SpecFactory                           *)

Small(ch) ==
    CASE ch = "F" -> "f" [] ch = "R" -> "r" [] ch = "E" -> "e" [] ch = "D" -> "d"
      [] ch = "H" -> "h" [] ch = "A" -> "a" [] ch = "V" -> "v" [] OTHER -> ch

\* the identifier without the blanks around it, in lower case
Lowered(source_type) ==
    LET t == RStrip(LStrip(source_type.chars)) IN [i \in DOMAIN t |-> Small(t[i])]

\* C22: the factory selects the FRED class for every spelling of "fred" in
\* upper and lower case, with or without blanks around it, the Haver class
\* for every such spelling of "haver", and rejects the other identifiers only.
C22_CaseInsensitive ==
    (last.op = "create_data_source" /\ last.arg[1].isstr) =>
        /\ last.source_class = "FREDDataSource"
              <=> Lowered(last.arg[1]) = <<"f", "r", "e", "d">>
        /\ last.source_class = "HaverDataSource"
              <=> Lowered(last.arg[1]) = <<"h", "a", "v", "e", "r">>

\* the values given for a credential: at call time, in config, in the
\* environment
Given(l, name, variable) == <<l.arg[3][name], l.arg[2][name], environ[variable]>>

\* the first of them that is given (the empty string counts as not given)
FirstGiven(given) ==
    IF \E i \in 1..3 : IsSet(given[i])
    THEN given[CHOOSE i \in 1..3 : IsSet(given[i]) /\ \A j \in 1..(i - 1) : ~IsSet(given[j])]
    ELSE Absent

\* the call ended with the failure for the missing credential `name`
MissingCredential(l, name) ==
    /\ l.exc # NoExc
    /\ l.exc.type = "ConfigurationError"
    /\ l.exc.cause # NoExc
    /\ l.exc.cause.type = "ConfigurationError"
    /\ l.exc.cause.context.config_key = name

\* the call ended with a failure of the constructor
ConstructorFailed(l) ==
    /\ l.exc # NoExc
    /\ l.exc.type = "ConfigurationError"
    /\ l.exc.cause # NoExc
    /\ l.exc.cause.type \in {"ValidationError", "TypeError"}

C25_HaverSourceName ==
    (/\ last.op = "create_data_source"
     /\ last.source_class = "HaverDataSource"
     /\ last.arg[3] = [NoKwargs EXCEPT !.username = Text("u", 1, 0, TRUE),
                                       !.password = Text("p", 1, 0, TRUE)]) =>
        /\ last.exc = NoExc
        /\ last.ret.cls = "HaverDataSource"
        /\ last.ret.source_name = "Haver"

-----------------------------------------------------------------------------
(* Validators: properties of the runs of SpecValidate                       *)

InvalidEntry(e) ==
    \/ ~e.isstr
    \/ \A i \in DOMAIN e.chars : e.chars[i] = " "
    \/ Len(RStrip(LStrip(e.chars))) > 50

\* C27: variable-code validation returns the entries of a list without
\* invalid entry in order, trimmed and in upper case, and raises one
\* ValidationFailure whose message and context name every invalid entry of a
\* list that has some.
C27_VariableValidation ==
    (last.op = "validate_variable_codes" /\ last.arg.shape = "list") =>
        LET items == last.arg.items
            bad   == {i \in DOMAIN items : InvalidEntry(items[i])}
            named(reported) == {reported[j].entry : j \in DOMAIN reported}
        IN  /\ bad = {} =>
                  /\ last.exc = NoExc
                  /\ Len(last.ret) = Len(items)
                  /\ \A i \in DOMAIN items : last.ret[i] = Clean(items[i].chars)
            /\ bad # {} =>
                  /\ last.exc.type = "ValidationError"
                  /\ Len(last.exc.message[2]) = Cardinality(bad)
                  /\ named(last.exc.message[2]) = {items[i] : i \in bad}
                  /\ Len(last.exc.context.invalid_variables) = Cardinality(bad)
                  /\ named(last.exc.context.invalid_variables) = {items[i] : i \in bad}

\* C27 witness: a list with two different invalid entries and a valid one
\* between them
C27_Witness ==
    /\ last.op = "validate_variable_codes"
    /\ last.arg = ListArg(<<NonStr, CodeB, Blank>>)
    /\ last.exc.type = "ValidationError"
    /\ Len(last.exc.context.invalid_variables) = 2

\* the characters a variable code is made of: letters, digits, `_`, `-`
CodeCharacters == {"A", "B", "a", "b", "0", "_", "-"}

\* C28: a variable code with a character that is not a letter, a digit, `_`
\* or `-` is rejected by validation with ValidationFailure.
C28_CodeCharacters ==
    (/\ last.op = "validate_variable_codes"
     /\ \E i \in DOMAIN last.arg.items :
           /\ last.arg.items[i].isstr
           /\ \E k \in DOMAIN Clean(last.arg.items[i].chars) :
                 Clean(last.arg.items[i].chars)[k] \notin CodeCharacters) =>
        last.exc.type = "ValidationError"

-----------------------------------------------------------------------------
(* Several instances: properties of the runs of SpecInstances               *)

\* the fields an instance keeps for itself: connection state, session and
\* the limiter's counters and timestamps
OwnFields(c) ==
    <<is_connected[c], session[c], last_request_time[c],
      IF c \in FredClients THEN requests_this_minute[c] ELSE 0,
      IF c \in FredClients THEN minute_window_start[c] ELSE DatetimeMin>>

\* C29: an operation on one client (connect, disconnect, get_data,
\* get_metadata, with the rate-limit checks and failures inside them) leaves
\* the connection state, the session and the rate-limit counters and
\* timestamps of every other instance as they were, the instance made with
\* the same credentials included.
C29_InstancesIsolated ==
    [][\A c \in Clients : c # last'.client => OwnFields(c)' = OwnFields(c)]_vars

\* the limiter refuses a request of the second FRED client while the first
\* one, made with the same key, stays connected with a quota of its own
C29_Witness ==
    /\ last.op = "get_data"
    /\ last.client = "f2"
    /\ \E i \in DOMAIN last.trace : ~last.trace[i].admitted
    /\ is_connected["f1"]
    /\ requests_this_minute["f1"] = 1
    /\ requests_this_minute["f2"] = FredRateLimit

\* every fetch of the call got past the limiter, so the source answered it
Answered(l) == \A i \in DOMAIN l.trace : l.trace[i].admitted

\* the instance's own quota covers n more requests
HasRoom(c, n) == requests_this_minute[c] + n <= rate_limit(c)

\* C30: two FRED instances issue the same get_data call one after the other
\* and the source gives both the same responses: the second call ends as the
\* first did, with an identical table, whatever the first instance did
\* before, as long as the second instance's own quota covers the call.
C30_SameCallSameTable ==
    [][(/\ last.op = "get_data" /\ last'.op = "get_data"
        /\ last.client \in FredClients /\ last'.client \in FredClients
        /\ last.client # last'.client
        /\ last'.arg = last.arg
        /\ last.before.is_connected /\ last'.before.is_connected
        /\ Answered(last)
        /\ HasRoom(last'.client, Len(VariablesOf(last')))
        /\ last'.outcomes = last.outcomes)
       => /\ last'.exc = last.exc
          /\ last'.ret = last.ret]_vars

\* the first instance has used up its quota, the second repeats its call and
\* returns the same table
C30_Witness ==
    /\ previous.op = "get_data" /\ previous.client = "f1"
    /\ last.op = "get_data" /\ last.client = "f2"
    /\ last.arg = previous.arg
    /\ previous.exc = NoExc /\ last.exc = NoExc
    /\ last.outcomes = previous.outcomes
    /\ last.ret = previous.ret
    /\ requests_this_minute["f1"] = FredRateLimit

-----------------------------------------------------------------------------
(* The limiter and the status of DataSource: properties of the runs of      *)
(* SpecBase                                                                 *)

\* ticks since the window of the generic limiter began, when it has begun
ElapsedBefore(l) == l.limiter.t - l.limiter.lrt

\* C31: the limiter of DataSource never fails and never counts more than
\* rate_limit requests in a window.  After more than a minute (or on the
\* first call) the counter restarts and the request is counted as 1; else,
\* below the limit, the counter grows by one without sleep; else, at the
\* limit with t seconds of the window gone, it sleeps at least the remaining
\* 60 - t seconds, starts a new window at the wake-up and counts the request
\* as 1.
C31_BaseLimiter ==
    last.op = "_enforce_rate_limit" =>
        LET st    == last.limiter
            after == last.after
            limit == RateLimitOf(last.client)
        IN  /\ last.exc = NoExc
            /\ after.cnt <= limit
            /\ IF st.lrt = NoTime \/ ElapsedBefore(last) > WindowTicks
               THEN after.cnt = 1 /\ after.slept = 0
               ELSE IF st.cnt < limit
               THEN after.cnt = st.cnt + 1 /\ after.slept = 0 /\ after.lrt = st.lrt
               ELSE /\ after.slept >= WindowTicks - ElapsedBefore(last)
                    /\ after.lrt = after.t
                    /\ after.cnt = 1

\* the requests the limiter of an instance has counted in its window
CountedInWindow(c) ==
    IF c \in FredClients THEN requests_this_minute[c] ELSE _request_count[c]

\* C32: get_rate_limit_status() reports the limiter's state: `used` is the
\* number of requests counted in the current window (on a FRED client,
\* requests_this_minute) and `remaining` is max(0, limit - used).
C32_StatusReportsLimiter ==
    last.op = "get_rate_limit_status" =>
        /\ last.ret.used = CountedInWindow(last.client)
        /\ last.ret.remaining = Max(0, last.ret.limit - CountedInWindow(last.client))

-----------------------------------------------------------------------------
(* Sessions                                                                 *)

\* C33: in every state the operations of a client lead to, a client whose
\* is_connected is true holds a session handle.
C33_ConnectedHasSession ==
    \A c \in Clients : is_connected[c] => session[c] # "None"

\* a reconnect has failed on a connected client: the flag and the handle are
\* both still there
C33_Witness ==
    /\ last.op = "connect"
    /\ last.exc # NoExc
    /\ last.before.is_connected
    /\ is_connected[last.client]
    /\ session[last.client] # "None"

\* the sessions a connect() replaced by a new one without closing them: the
\* one the client held when it was called and those of every invocation of
\* the body but the last
ReplacedOpen(l) ==
    (l.invocations - 1) + (IF l.before.session # "None" THEN 1 ELSE 0)

\* C34: the client leaks no HTTP session: no connect(), whether it fails, is
\* repeated by the retry wrapper or is called on a client that already holds
\* a session, replaces a session that was not closed, and a client whose
\* is_connected is false after an operation holds no open session.
C34_NoSessionLeak ==
    /\ last.op = "connect" => ReplacedOpen(last) = 0
    /\ \A c \in Clients : ~is_connected[c] => session[c] = "None"

-----------------------------------------------------------------------------
(* The FRED limiter: the counter                                            *)

\* the limits a FRED client may be configured with
Limits == 1..(FredRateLimit + 1)

\* C35: on a FRED client 0 <= requests_this_minute <= rate_limit in every
\* state; and for every limit of at least 1, a connect or a check of the
\* limiter made now with a counter inside those bounds leaves it inside them.
C35_CounterWithinLimit ==
    \A c \in FredClients :
        /\ requests_this_minute[c] \in 0..rate_limit(c)
        /\ \A limit \in Limits :
              /\ CountAfterConnect \in 0..limit
              /\ \A cnt \in 0..limit :
                    FredEnforceRateLimit(limit, [Limiter(c) EXCEPT !.cnt = cnt]).st.cnt
                        \in 0..limit

\* in the second window the client has used its quota again and a fetch is
\* refused
C35_Witness ==
    /\ last.op = "get_data"
    /\ last.client \in FredClients
    /\ \E i \in DOMAIN last.trace : ~last.trace[i].admitted
    /\ requests_this_minute[last.client] = rate_limit(last.client)
    /\ minute_window_start[last.client] >= WindowTicks

\* the operation made one check of the limiter
OneCheck(l) == l.op \in {"get_data", "get_metadata"} /\ Len(l.trace) = 1

\* C36: a check of the FRED limiter that raises RateLimitError leaves
\* requests_this_minute, minute_window_start and last_request_time as they
\* were and sleeps nothing (the clock stands); a check that admits the
\* request adds exactly one to requests_this_minute, or sets it to 1 when it
\* started a new window.
C36_RefusalChangesNothing ==
    [][\A c \in FredClients :
         (OneCheck(last') /\ last'.client = c) =>
            IF last'.trace[1].admitted
            THEN requests_this_minute'[c] =
                    IF minute_window_start'[c] # minute_window_start[c] THEN 1
                    ELSE requests_this_minute[c] + 1
            ELSE /\ requests_this_minute'[c] = requests_this_minute[c]
                 /\ minute_window_start'[c] = minute_window_start[c]
                 /\ last_request_time'[c] = last_request_time[c]
                 /\ now' = now
                 /\ \A i \in DOMAIN last'.sleeps : last'.sleeps[i] = 0]_vars

\* a fetch has been refused with the counter at the limit
C36_Witness ==
    /\ OneCheck(last)
    /\ last.client \in FredClients
    /\ ~last.trace[1].admitted
    /\ requests_this_minute[last.client] = rate_limit(last.client)
    /\ Len(last.sleeps) > 0

\* _enforce_rate_limit called at tick t on the limiter fields the client
\* has now
CheckAt(c, t) == FredEnforceRateLimit(rate_limit(c), [Limiter(c) EXCEPT !.t = t])

\* C37: the retry_after of the RateLimitError the FRED limiter raises is at
\* least 1 and greater than the seconds left until the window resets, so a
\* check made retry_after seconds after the failure, or a little later,
\* admits the request.
C37_RetryAfterSuffices ==
    \A c \in FredClients :
        (OneCheck(last) /\ last.client = c /\ ~last.trace[1].admitted) =>
            LET raised    == CheckAt(c, now).exc
                hint      == ContextGet(raised.context, "retry_after", 0)
                remaining == (minute_window_start[c] + WindowTicks) - now
            IN  /\ raised # NoExc
                /\ hint >= 1
                /\ hint * Second > remaining
                /\ \A later \in 0..Second :
                      CheckAt(c, now + hint * Second + later).exc = NoExc

\* a fetch has been refused half a second before a whole number of seconds
\* is left of the window
C37_Witness ==
    /\ OneCheck(last)
    /\ last.client \in FredClients
    /\ ~last.trace[1].admitted
    /\ ((minute_window_start[last.client] + WindowTicks) - now) % Second = 1

-----------------------------------------------------------------------------
(* get_variable_metadata and get_metadata                                   *)

\* C38: whenever the request for the trimmed, upper-cased code of v is let
\* through and answered with a record, so that get_metadata([v]) returns it,
\* get_variable_metadata(v) returns the record of that code and raises
\* nothing, however v is spelled.
C38_SpellingAgnostic ==
    (/\ last.op = "get_variable_metadata"
     /\ last.before.is_connected
     /\ Len(last.trace) = 1
     /\ last.trace[1].admitted
     /\ last.outcomes[1].kind = "found")
    => /\ last.exc = NoExc
       /\ last.ret = [code |-> Clean(last.arg[1].chars)]

-----------------------------------------------------------------------------
(* The FRED limiter: connect() on a client that has sent requests           *)

\* C39: a connect() that returns on a FRED client inside the minute window
\* keeps the requests the window has counted and adds its probe to them; and
\* rate_limit + 1 counted requests in a row, a probe of a reconnect among
\* them, never lie within one 60-second window.
C39_ReconnectKeepsCount ==
    [][\A c \in FredClients :
         /\ (/\ last'.op = "connect" /\ last'.client = c /\ last'.exc = NoExc
             /\ requests_this_minute[c] >= 1
             /\ now' - minute_window_start[c] < WindowTicks)
            => requests_this_minute'[c] = requests_this_minute[c] + 1
         /\ \A i \in DOMAIN admitted'[c] :
               LET j == i + rate_limit(c)
               IN  (/\ j \in DOMAIN admitted'[c]
                    /\ \E k \in (i + 1)..j : admitted'[c][k].kind = "probe")
                   => admitted'[c][j].at - admitted'[c][i].at >= WindowTicks]_vars

====
